---- MODULE Spec2Model ----
(***************************************************************************)
(* A model of rhisto (src/src/lib.rs): the ColumnParser row stream and     *)
(* Histogram::from_values.  The histogram arithmetic is IEEE-754 binary32  *)
(* (Rust f32), modelled bit-exactly with integer mantissas and exponents:  *)
(* a finite number is (-1)^neg * m * 2^e with m < 2^24.                    *)
(***************************************************************************)
EXTENDS Integers, Sequences, FiniteSets

VARIABLES
    kind,       \* which object this run exercises: "hist" or "parser"
    values,     \* Histogram::from_values argument `values` (each an integer-valued f32)
    num_bins,   \* Histogram::from_values argument `num_bins`
    hist,       \* result of from_values: not yet called, panicked, or the Histogram
    lines,      \* ColumnParser.lines: the items the Lines<Reader> iterator has left
    column,     \* ColumnParser.column
    delim,      \* ColumnParser.delim
    mode,       \* "parser": a ColumnParser; "rows": it was moved into a Rows iterator
    returned,   \* the values returned so far by parse_row / Rows::next, in call order
    input       \* the items the reader held at construction (history, never changes)

vars == <<kind, values, num_bins, hist, lines, column, delim, mode, returned, input>>

----------------------------------------------------------------------------
(* Bounds of the model.                                                     *)

\* longest `values` vector
MaxLen == 3
\* largest `num_bins`
MaxBins == 3
\* values are the integers -MaxNeg .. MaxPos, as f32
MaxNeg == 2
MaxPos == 3
\* most items the reader holds
MaxLines == 2
\* largest column index
MaxColumn == 2

----------------------------------------------------------------------------
(* binary32 arithmetic, as the f32 operators of lib.rs:107-122 compute it.  *)

\* mantissa width of f32 (24 bits with the hidden bit)
MantBits == 24
\* exponent of the least significant mantissa bit of the smallest subnormal
EMin == -149
\* exponent of the least significant mantissa bit of f32::MAX
EMax == 104

RECURSIVE Pow2(_)
Pow2(k) == IF k <= 0 THEN 1 ELSE 2 * Pow2(k - 1)

RECURSIVE BitLen(_)
BitLen(n) == IF n = 0 THEN 0 ELSE 1 + BitLen(n \div 2)

NaN == [cls |-> "nan", neg |-> FALSE, m |-> 0, e |-> 0]
Inf(neg) == [cls |-> "inf", neg |-> neg, m |-> 0, e |-> 0]
INFINITY == Inf(FALSE)
NEG_INFINITY == Inf(TRUE)
Zero(neg) == [cls |-> "fin", neg |-> neg, m |-> 0, e |-> EMin]

\* a finite result with a canonical mantissa; past f32::MAX it overflows to infinity
Fin(neg, m, e) ==
    IF m = 0 THEN Zero(neg)
    ELSE IF e > EMax THEN Inf(neg)
    ELSE [cls |-> "fin", neg |-> neg, m |-> m, e |-> e]

\* round-to-nearest-even of (M + f) * 2^E, 0 <= f < 1 and f > 0 iff sticky
Round(neg, M, E, sticky) ==
    IF M = 0 THEN Zero(neg)
    ELSE LET sh0 == BitLen(M) - MantBits
             sh  == IF E + sh0 < EMin THEN EMin - E ELSE sh0
         IN  IF sh <= 0 THEN Fin(neg, M * Pow2(-sh), E + sh)
             ELSE IF sh > 30 THEN Zero(neg)
             ELSE LET q    == M \div Pow2(sh)
                      r    == M % Pow2(sh)
                      half == Pow2(sh - 1)
                      up   == \/ r > half
                              \/ r = half /\ sticky
                              \/ r = half /\ ~sticky /\ (q % 2) = 1
                      q1   == IF up THEN q + 1 ELSE q
                  IN  IF q1 = Pow2(MantBits)
                      THEN Fin(neg, Pow2(MantBits - 1), E + sh + 1)
                      ELSE Fin(neg, q1, E + sh)

\* `k as f32` / an f32 literal with an integer value
FromInt(k) == Round(k < 0, IF k < 0 THEN -k ELSE k, 0, FALSE)

\* mantissa shifted up to 24 bits (exponent unbounded below): internal form
Norm(x) ==
    LET s == MantBits - BitLen(x.m)
    IN  [m |-> x.m * Pow2(s), e |-> x.e - s]

Neg(x) == IF x.cls = "nan" THEN NaN ELSE [x EXCEPT !.neg = ~x.neg]

\* a + b
Add(a, b) ==
    IF a.cls = "nan" \/ b.cls = "nan" THEN NaN
    ELSE IF a.cls = "inf"
         THEN (IF b.cls = "inf" /\ b.neg # a.neg THEN NaN ELSE a)
    ELSE IF b.cls = "inf" THEN b
    ELSE IF a.m = 0 /\ b.m = 0 THEN Zero(a.neg /\ b.neg)
    ELSE IF a.m = 0 THEN b
    ELSE IF b.m = 0 THEN a
    ELSE LET hi == IF a.e >= b.e THEN a ELSE b
             lo == IF a.e >= b.e THEN b ELSE a
             d  == hi.e - lo.e
             A  == hi.m * 32
             B  == IF d >= 30 THEN 0 ELSE (lo.m * 32) \div Pow2(d)
             s  == IF d >= 30 THEN TRUE ELSE ((lo.m * 32) % Pow2(d)) # 0
             E  == hi.e - 5
         IN  IF hi.neg = lo.neg THEN Round(hi.neg, A + B, E, s)
             ELSE LET diff == A - B - (IF s THEN 1 ELSE 0)
                  IN  IF diff = 0 /\ ~s THEN Zero(FALSE)
                      ELSE IF diff < 0 THEN Round(lo.neg, -diff, E, FALSE)
                      ELSE Round(hi.neg, diff, E, s)

\* a - b
Sub(a, b) == Add(a, Neg(b))

\* a * b
Mul(a, b) ==
    IF a.cls = "nan" \/ b.cls = "nan" THEN NaN
    ELSE IF a.cls = "inf" \/ b.cls = "inf"
         THEN (IF (a.cls = "fin" /\ a.m = 0) \/ (b.cls = "fin" /\ b.m = 0)
               THEN NaN ELSE Inf(a.neg # b.neg))
    ELSE IF a.m = 0 \/ b.m = 0 THEN Zero(a.neg # b.neg)
    ELSE LET na  == Norm(a)
             nb  == Norm(b)
             ah  == na.m \div 4096
             al  == na.m % 4096
             bh  == nb.m \div 4096
             bl  == nb.m % 4096
             lo  == al * bl
             mid == (ah * bl) + (al * bh) + (lo \div 4096)
             top == (ah * bh) + (mid \div 4096)
             L   == ((mid % 4096) * 4096) + (lo % 4096)
         IN  Round(a.neg # b.neg, (top * 16) + (L \div 1048576),
                   na.e + nb.e + 20, (L % 1048576) # 0)

\* k more quotient bits of r / d by long division: <<quotient, remainder>>
RECURSIVE DivBits(_, _, _, _)
DivBits(q, r, d, k) ==
    IF k = 0 THEN <<q, r>>
    ELSE IF 2 * r >= d THEN DivBits(2 * q + 1, 2 * r - d, d, k - 1)
    ELSE DivBits(2 * q, 2 * r, d, k - 1)

\* a / b
Div(a, b) ==
    IF a.cls = "nan" \/ b.cls = "nan" THEN NaN
    ELSE IF a.cls = "inf"
         THEN (IF b.cls = "inf" THEN NaN ELSE Inf(a.neg # b.neg))
    ELSE IF b.cls = "inf" THEN Zero(a.neg # b.neg)
    ELSE IF b.m = 0 THEN (IF a.m = 0 THEN NaN ELSE Inf(a.neg # b.neg))
    ELSE IF a.m = 0 THEN Zero(a.neg # b.neg)
    ELSE LET na == Norm(a)
             nb == Norm(b)
             qr == DivBits(na.m \div nb.m, na.m % nb.m, nb.m, 27)
         IN  Round(a.neg # b.neg, qr[1], na.e - nb.e - 27, qr[2] # 0)

\* a < b for numbers that are not NaN
Less(a, b) ==
    LET mag(x, y) ==     \* |x| < |y|
            IF x.cls = "inf" THEN FALSE
            ELSE IF y.cls = "inf" THEN TRUE
            ELSE x.e < y.e \/ (x.e = y.e /\ x.m < y.m)
        zero(x) == x.cls = "fin" /\ x.m = 0
    IN  IF zero(a) /\ zero(b) THEN FALSE
        ELSE IF a.neg /\ ~b.neg THEN TRUE
        ELSE IF ~a.neg /\ b.neg THEN FALSE
        ELSE IF a.neg THEN mag(b, a)
        ELSE mag(a, b)

\* f32::min: the lesser; a NaN operand is ignored
f32_min(a, b) ==
    IF a.cls = "nan" THEN b
    ELSE IF b.cls = "nan" THEN a
    ELSE IF Less(b, a) THEN b ELSE a

\* f32::max: the greater; a NaN operand is ignored
f32_max(a, b) ==
    IF a.cls = "nan" THEN b
    ELSE IF b.cls = "nan" THEN a
    ELSE IF Less(a, b) THEN b ELSE a

\* f32::next_up: the least f32 greater than x
next_up(x) ==
    IF x.cls = "nan" THEN NaN
    ELSE IF x.cls = "inf"
         THEN (IF x.neg THEN [cls |-> "fin", neg |-> TRUE,
                               m |-> Pow2(MantBits) - 1, e |-> EMax]
               ELSE x)
    ELSE IF x.m = 0 THEN Fin(FALSE, 1, EMin)
    ELSE IF ~x.neg
         THEN (IF x.m + 1 = Pow2(MantBits)
               THEN Fin(FALSE, Pow2(MantBits - 1), x.e + 1)
               ELSE Fin(FALSE, x.m + 1, x.e))
    ELSE IF x.m - 1 < Pow2(MantBits - 1) /\ x.e > EMin
         THEN Fin(TRUE, Pow2(MantBits) - 1, x.e - 1)
         ELSE Fin(TRUE, x.m - 1, x.e)

\* every index this large is past the end of any bins vector of the model
UsizeCap == 1073741824

\* `x.trunc() as usize`: toward zero, then the saturating cast
\* (NaN and negatives give 0, what exceeds the cap is reported as the cap)
trunc_as_usize(x) ==
    IF x.cls = "nan" THEN 0
    ELSE IF x.neg THEN 0
    ELSE IF x.cls = "inf" THEN UsizeCap
    ELSE IF x.e >= 7 THEN (IF x.m = 0 THEN 0 ELSE UsizeCap)
    ELSE IF x.e >= 0 THEN (IF x.m * Pow2(x.e) >= UsizeCap
                           THEN UsizeCap ELSE x.m * Pow2(x.e))
    ELSE IF -x.e > 30 THEN 0
    ELSE x.m \div Pow2(-x.e)

----------------------------------------------------------------------------
(* Histogram (lib.rs:94-145).                                               *)

\* Option<(f32, f32)>, the fold's accumulator
None == [some |-> FALSE, min |-> NaN, max |-> NaN]
Some(min, max) == [some |-> TRUE, min |-> min, max |-> max]

\* the fold's closure (lib.rs:107-110): on the first element the accumulator
\* becomes (INFINITY, NEG_INFINITY) and the element itself is not folded in
fold_step(acc, value) ==
    IF acc.some
    THEN Some(f32_min(acc.min, value), f32_max(acc.max, value))
    ELSE Some(INFINITY, NEG_INFINITY)

\* Iterator::fold over values.iter()
RECURSIVE fold(_, _)
fold(vs, acc) ==
    IF vs = <<>> THEN acc ELSE fold(Tail(vs), fold_step(acc, Head(vs)))

\* the same fold, wrongly seeded with Some((INFINITY, NEG_INFINITY))
fold_min_max_seeded(vs) == fold(vs, Some(INFINITY, NEG_INFINITY))

\* values.iter().fold(None, ...)
fold_min_max(vs) == fold(vs, None)

\* Bin { label, count: 0 } for bin i (0-based)
new_bin(i, min, bin_width) ==
    [label |-> Add(Add(Mul(FromInt(i), bin_width), min),
                   Div(bin_width, FromInt(2))),
     count |-> 0]

\* ((value - min) / (max.next_up() - min) * num_bins as f32).trunc() as usize
bin_index(value, min, max, n) ==
    trunc_as_usize(Mul(Div(Sub(value, min), Sub(next_up(max), min)),
                       FromInt(n)))

\* a count that is set rather than incremented
increment_set(bin) == [bin EXCEPT !.count = 1]

\* bins[i].count += 1
increment(bin) == [bin EXCEPT !.count = @ + 1]

Panicked == [status |-> "panic", bins |-> <<>>]
NotCalled == [status |-> "none", bins |-> <<>>]

\* .for_each(|i| bins[i].count += 1): indexing past the end panics
RECURSIVE for_each(_, _, _, _, _)
for_each(bins, vs, min, max, n) ==
    IF vs = <<>> THEN [status |-> "ok", bins |-> bins]
    ELSE LET i == bin_index(Head(vs), min, max, n)
         IN  IF i >= Len(bins) THEN Panicked
             ELSE for_each([bins EXCEPT ![i + 1] = increment(@)],
                           Tail(vs), min, max, n)

\* Histogram::from_values(values, num_bins)
from_values(vs, n) ==
    LET acc == fold_min_max(vs)
    IN  IF acc.some
        THEN LET bin_width == Div(Sub(acc.max, acc.min), FromInt(n))
                 bins == [k \in 1..n |-> new_bin(k - 1, acc.min, bin_width)]
             IN  for_each(bins, vs, acc.min, acc.max, n)
        ELSE [status |-> "ok", bins |-> <<>>]

\* Histogram::into_counts
into_counts(h) == [k \in 1..Len(h.bins) |-> h.bins[k].count]

\* Histogram::into_labels
into_labels(h) == [k \in 1..Len(h.bins) |-> h.bins[k].label]

----------------------------------------------------------------------------
(* ColumnParser and Rows (lib.rs:21-78), with T = f32.                      *)

Digits == {"0", "1", "2", "3", "4", "5", "6", "7", "8", "9"}

DigitValue(c) ==
    CASE c = "0" -> 0 [] c = "1" -> 1 [] c = "2" -> 2 [] c = "3" -> 3
      [] c = "4" -> 4 [] c = "5" -> 5 [] c = "6" -> 6 [] c = "7" -> 7
      [] c = "8" -> 8 [] c = "9" -> 9

RECURSIVE DecimalValue(_)
DecimalValue(tok) ==
    IF tok = <<>> THEN 0
    ELSE 10 * DecimalValue(SubSeq(tok, 1, Len(tok) - 1)) + DigitValue(tok[Len(tok)])

\* ASCII lower case of the letters of "infinity" and "nan"
Lower(c) ==
    CASE c = "I" -> "i" [] c = "N" -> "n" [] c = "F" -> "f" [] c = "T" -> "t"
      [] c = "Y" -> "y" [] c = "A" -> "a" [] OTHER -> c

LowerAll(s) == [k \in 1..Len(s) |-> Lower(s[k])]

\* how many digits stand in s from position k on
RECURSIVE DigitRun(_, _)
DigitRun(s, k) ==
    IF k <= Len(s) /\ s[k] \in Digits THEN 1 + DigitRun(s, k + 1) ELSE 0

RECURSIVE StripLeadingZeros(_)
StripLeadingZeros(d) ==
    IF d # <<>> /\ Head(d) = "0" THEN StripLeadingZeros(Tail(d)) ELSE d

RECURSIVE TrailingZeros(_)
TrailingZeros(d) ==
    IF d # <<>> /\ d[Len(d)] = "0"
    THEN 1 + TrailingZeros(SubSeq(d, 1, Len(d) - 1))
    ELSE 0

RECURSIVE Pow5(_)
Pow5(k) == IF k <= 0 THEN 1 ELSE 5 * Pow5(k - 1)

\* 10^k as an f32, exact for 0 <= k <= 10
Pow10(k) == Round(FALSE, Pow5(k), k, FALSE)

\* a decimal the model does not convert: no value is defined for it
Unmodelled == CHOOSE v \in {} : TRUE

\* the grammar of a decimal float without its sign:
\* digits* [ "." digits* ] [ ("e" | "E") [ "+" | "-" ] digits+ ], one mantissa
\* digit at least, and nothing after it
parse_number(s) ==
    LET i       == DigitRun(s, 1)
        dot     == i + 1 <= Len(s) /\ s[i + 1] = "."
        f       == IF dot THEN DigitRun(s, i + 2) ELSE 0
        p       == i + 1 + (IF dot THEN 1 + f ELSE 0)
        hasExp  == p <= Len(s) /\ s[p] \in {"e", "E"}
        esigned == hasExp /\ p + 1 <= Len(s) /\ s[p + 1] \in {"+", "-"}
        q       == p + 1 + (IF esigned THEN 1 ELSE 0)
        x       == IF hasExp THEN DigitRun(s, q) ELSE 0
    IN  [ok      |-> /\ i + f >= 1
                     /\ IF hasExp THEN x >= 1 /\ q + x - 1 = Len(s)
                        ELSE p > Len(s),
         digits  |-> SubSeq(s, 1, i)
                     \o (IF dot THEN SubSeq(s, i + 2, i + 1 + f) ELSE <<>>),
         frac    |-> f,
         eneg    |-> esigned /\ s[p + 1] = "-",
         edigits |-> IF hasExp THEN SubSeq(s, q, q + x - 1) ELSE <<>>]

\* the f32 nearest to (-1)^neg * digits * 10^(exponent - frac).  Zero, what
\* overflows and what underflows are decided by size; otherwise a mantissa of
\* at most 2^24 with a power of ten of at most 10^10 is one correctly rounded
\* multiplication or division of two exact f32 (the fast path of dec2flt).
\* Longer decimals are not converted by the model.
decimal_to_f32(neg, n) ==
    LET sig0  == StripLeadingZeros(n.digits)
        tz    == TrailingZeros(sig0)
        sig   == SubSeq(sig0, 1, Len(sig0) - tz)
        ed    == StripLeadingZeros(n.edigits)
        ehuge == Len(ed) > 4
        ex    == IF ehuge THEN 0
                 ELSE IF n.eneg THEN 0 - DecimalValue(ed) ELSE DecimalValue(ed)
        k     == ex - n.frac + tz
    IN  IF sig = <<>> THEN Zero(neg)
        ELSE IF ehuge
             THEN (IF Len(n.digits) > 1000 THEN Unmodelled
                   ELSE IF n.eneg THEN Zero(neg) ELSE Inf(neg))
        ELSE IF k > 38 THEN Inf(neg)
        ELSE IF Len(sig) + k < -45 THEN Zero(neg)
        ELSE IF Len(sig) <= 8 /\ k >= -10 /\ k <= 10
             THEN (IF DecimalValue(sig) > Pow2(MantBits) THEN Unmodelled
                   ELSE LET d == FromInt(DecimalValue(sig))
                            r == IF k >= 0 THEN Mul(d, Pow10(k))
                                 ELSE Div(d, Pow10(0 - k))
                        IN  [r EXCEPT !.neg = neg])
        ELSE Unmodelled

\* value.parse::<f32>() (<f32 as FromStr>::from_str): an optional sign, then
\* a decimal number, or "inf", "infinity" or "nan" in any letter case;
\* anything else, spaces included, is an Err
parse_f32(tok) ==
    LET signed == tok # <<>> /\ tok[1] \in {"+", "-"}
        neg    == signed /\ tok[1] = "-"
        body   == IF signed THEN Tail(tok) ELSE tok
        n      == parse_number(body)
    IN  IF body = <<>> THEN [ok |-> FALSE, v |-> NaN]
        ELSE IF n.ok THEN [ok |-> TRUE, v |-> decimal_to_f32(neg, n)]
        ELSE IF LowerAll(body) \in {<<"i", "n", "f">>,
                                    <<"i", "n", "f", "i", "n", "i", "t", "y">>}
             THEN [ok |-> TRUE, v |-> Inf(neg)]
        ELSE IF LowerAll(body) = <<"n", "a", "n">>
             THEN [ok |-> TRUE, v |-> NaN]
        ELSE [ok |-> FALSE, v |-> NaN]

\* does pat occur in s at position k (1-based)
MatchAt(s, pat, k) ==
    /\ k + Len(pat) - 1 <= Len(s)
    /\ \A j \in 1..Len(pat) : s[k + j - 1] = pat[j]

\* line.split(&self.delim): the pieces between the non-overlapping matches of
\* a non-empty delim, found left to right; a line without a match is one piece
RECURSIVE split(_, _)
split(s, pat) ==
    LET hits == {k \in 1..Len(s) : MatchAt(s, pat, k)}
    IN  IF hits = {} THEN <<s>>
        ELSE LET k == CHOOSE h \in hits : \A g \in hits : h <= g
             IN  <<SubSeq(s, 1, k - 1)>>
                 \o split(SubSeq(s, k + Len(pat), Len(s)), pat)

\* nth taken as a 1-based position
nth_one_based(fields, n) ==
    IF 1 <= n /\ n <= Len(fields)
    THEN [some |-> TRUE, value |-> fields[n]]
    ELSE [some |-> FALSE, value |-> <<>>]

\* Iterator::nth(n): the item at 0-based position n, if there is one
nth(fields, n) ==
    IF n < Len(fields)
    THEN [some |-> TRUE, value |-> fields[n + 1]]
    ELSE [some |-> FALSE, value |-> <<>>]

\* the values parse_row returns: Option<Result<Option<f32>, Error>>
RetNone       == [opt |-> "None", res |-> "-",                value |-> NaN]
RetValue(v)   == [opt |-> "Some", res |-> "Ok(Some)",         value |-> v]
RetNoValue    == [opt |-> "Some", res |-> "Ok(None)",         value |-> NaN]
RetInvalidRow == [opt |-> "Some", res |-> "Err(InvalidRow)",  value |-> NaN]
RetFailedRead == [opt |-> "Some", res |-> "Err(FailedRead)",  value |-> NaN]

\* a failed parse reported as an error
ok_as_error(r) == IF r.ok THEN RetValue(r.v) ELSE RetInvalidRow

\* Some(Ok(value.parse::<T>().ok())): Result::ok() turns a failed parse into None
ok(r) == IF r.ok THEN RetValue(r.v) ELSE RetNoValue

\* the match on one item of the Lines iterator (lib.rs:41-60)
parse_line(item, col, dl) ==
    IF item.ok
    THEN LET field == nth(split(item.line, dl), col)
         IN  IF field.some THEN ok(parse_f32(field.value)) ELSE RetInvalidRow
    ELSE RetFailedRead

\* a parse_row that stops reading after a row without the column
parse_row_fatal(ls, col, dl) ==
    IF ls = <<>> THEN [ret |-> RetNone, rest |-> <<>>]
    ELSE LET r == parse_line(Head(ls), col, dl)
         IN  [ret |-> r,
              rest |-> IF r = RetInvalidRow THEN <<>> ELSE Tail(ls)]

\* ColumnParser::parse_row: self.lines.next()?, then the match;
\* ret is the value returned and rest what the Lines iterator has left
parse_row(ls, col, dl) ==
    IF ls = <<>> THEN [ret |-> RetNone, rest |-> <<>>]
    ELSE [ret |-> parse_line(Head(ls), col, dl), rest |-> Tail(ls)]

----------------------------------------------------------------------------
(* The state machine.                                                       *)

Vals == (0 - MaxNeg)..MaxPos

RECURSIVE SeqsUpTo(_, _)
SeqsUpTo(S, n) ==
    IF n = 0 THEN {<<>>}
    ELSE LET shorter == SeqsUpTo(S, n - 1)
         IN  shorter \cup {Append(s, x) : s \in {t \in shorter : Len(t) = n - 1}, x \in S}

\* the vector as the f32 values handed to from_values
F32Values == [k \in 1..Len(values) |-> FromInt(values[k])]

InitHist ==
    /\ kind = "hist"
    /\ values \in SeqsUpTo(Vals, MaxLen)
    /\ num_bins \in 0..MaxBins
    /\ hist = NotCalled
    /\ lines = <<>> /\ column = 0 /\ delim = <<>> /\ mode = "parser"
    /\ returned = <<>> /\ input = <<>>

\* the row texts the reader may hold, one character per element:
\*   "1.0,2.0,3.0"
\*   "4.0,5.0,6.0"
\*   "7.0,8.0,9.0"
\*   "4.0"
\*   "4.0,x,6.0"
\*   ""
\*   "7,,9"
\*   "-1.5,1e2,inf"
RowTexts ==
    { <<"1", ".", "0", ",", "2", ".", "0", ",", "3", ".", "0">>,
      <<"4", ".", "0", ",", "5", ".", "0", ",", "6", ".", "0">>,
      <<"7", ".", "0", ",", "8", ".", "0", ",", "9", ".", "0">>,
      <<"4", ".", "0">>,
      <<"4", ".", "0", ",", "x", ",", "6", ".", "0">>,
      <<>>,
      <<"7", ",", ",", "9">>,
      <<"-", "1", ".", "5", ",", "1", "e", "2", ",", "i", "n", "f">> }

\* what Lines<Reader>::next yields: Ok(line), or Err for a failed read
Items == {[ok |-> TRUE, line |-> t] : t \in RowTexts} \cup {[ok |-> FALSE, line |-> <<>>]}

Delims == {<<",">>, <<",", ",">>}

\* the reader of the repository's test_column_parser:
\* "1.0,2.0,3.0\n4.0,5.0,6.0\n7.0,8.0,9.0\n"
TestInput ==
    <<[ok |-> TRUE, line |-> <<"1", ".", "0", ",", "2", ".", "0", ",", "3", ".", "0">>],
      [ok |-> TRUE, line |-> <<"4", ".", "0", ",", "5", ".", "0", ",", "6", ".", "0">>],
      [ok |-> TRUE, line |-> <<"7", ".", "0", ",", "8", ".", "0", ",", "9", ".", "0">>]>>

\* ColumnParser::new(reader, column, delim)
InitParser ==
    /\ kind = "parser"
    /\ input \in SeqsUpTo(Items, MaxLines) \cup {TestInput}
    /\ lines = input
    /\ column \in 0..MaxColumn
    /\ delim \in Delims
    /\ mode = "parser"
    /\ returned = <<>>
    /\ values = <<>> /\ num_bins = 0 /\ hist = NotCalled

Init == InitHist \/ InitParser

\* Histogram::from_values(values, num_bins)
FromValues ==
    /\ kind = "hist"
    /\ hist.status = "none"
    /\ hist' = from_values(F32Values, num_bins)
    /\ UNCHANGED <<kind, values, num_bins, lines, column, delim, mode, returned, input>>

\* a call of parse_row or Rows::next; calls go on until None was returned twice
Call ==
    /\ Len(returned) <= Len(input) + 1
    /\ LET r == parse_row(lines, column, delim)
       IN  /\ lines' = r.rest
           /\ returned' = Append(returned, r.ret)
    /\ UNCHANGED <<kind, values, num_bins, hist, column, delim, input>>

\* ColumnParser::parse_row
ParseRow ==
    /\ kind = "parser" /\ mode = "parser"
    /\ Call
    /\ UNCHANGED mode

\* ColumnParser::rows: the parser moves into the iterator
Rows ==
    /\ kind = "parser" /\ mode = "parser"
    /\ mode' = "rows"
    /\ UNCHANGED <<kind, values, num_bins, hist, lines, column, delim, returned, input>>

\* Rows::next
RowsNext ==
    /\ kind = "parser" /\ mode = "rows"
    /\ Call
    /\ UNCHANGED mode

Next == FromValues \/ ParseRow \/ Rows \/ RowsNext

Spec == Init /\ [][Next]_vars

----------------------------------------------------------------------------
(* Vocabulary of the properties.                                            *)

\* from_values has been called on a `hist` run
Called == kind = "hist" /\ hist.status # "none"

MinOf(vs) == CHOOSE x \in {vs[k] : k \in 1..Len(vs)} : \A k \in 1..Len(vs) : x <= vs[k]
MaxOf(vs) == CHOOSE x \in {vs[k] : k \in 1..Len(vs)} : \A k \in 1..Len(vs) : x >= vs[k]

RECURSIVE SumCounts(_)
SumCounts(bins) ==
    IF bins = <<>> THEN 0 ELSE Head(bins).count + SumCounts(Tail(bins))

\* the reorderings of a sequence
Perms(vs) ==
    LET D == 1..Len(vs)
    IN  {[k \in D |-> vs[f[k]]] : f \in {g \in [D -> D] : \A a, b \in D : g[a] = g[b] => a = b}}

AsF32(vs) == [k \in 1..Len(vs) |-> FromInt(vs[k])]

AllEqual(vs) == \A j, k \in 1..Len(vs) : vs[j] = vs[k]

\* x belongs to bin i (0-based) of n equal-width bins over [lo, hi], hi > lo:
\* lo + i*w <= x < lo + (i+1)*w with w = (hi - lo)/n, hi itself in the last bin
InBin(x, i, lo, hi, n) ==
    \/ /\ lo * n + i * (hi - lo) <= x * n
       /\ x * n < lo * n + (i + 1) * (hi - lo)
    \/ x = hi /\ i = n - 1

\* row k of the input was read and has a field at `column`
HasColumn(k) ==
    /\ k <= Len(input)
    /\ input[k].ok
    /\ Len(split(input[k].line, delim)) > column

\* row k of the input was read and has no field at `column`
MissingColumn(k) ==
    /\ k <= Len(input)
    /\ input[k].ok
    /\ Len(split(input[k].line, delim)) <= column

\* the text of the field at `column` of row k
FieldAt(k) == split(input[k].line, delim)[column + 1]

\* the field text parses as an f32
Parses(tok) == parse_f32(tok).ok

AllRowsGood == \A k \in 1..Len(input) : HasColumn(k) /\ Parses(FieldAt(k))

\* what the reader has left after as many calls as were made
Unread == SubSeq(input, Len(returned) + 1, Len(input))

ErrResults == {"Err(InvalidRow)", "Err(FailedRead)", "Err(FailedParse)"}

----------------------------------------------------------------------------
(* The claims.                                                              *)

\* C1: for a non-empty vector and num_bins >= 1, from_values completes and the
\* bin counts add up to the number of values.
C1_CountsSumToLen ==
    (Called /\ Len(values) >= 1 /\ num_bins >= 1)
        => (hist.status = "ok" /\ SumCounts(hist.bins) = Len(values))

\* C2: min and max are the least and greatest of all the values, every value's
\* bin index is below num_bins, a value equal to max has index num_bins - 1,
\* and bins is never indexed out of range.
C2_IndexInRange ==
    (Called /\ Len(values) >= 1 /\ num_bins >= 1)
        => LET acc == fold_min_max(F32Values)
           IN  /\ acc.min = FromInt(MinOf(values))
               /\ acc.max = FromInt(MaxOf(values))
               /\ \A k \in 1..Len(values) :
                     LET i == bin_index(F32Values[k], acc.min, acc.max, num_bins)
                     IN  /\ i < num_bins
                         /\ values[k] = MaxOf(values) => i = num_bins - 1
               /\ hist.status = "ok"

\* C3: an empty vector gives a histogram with zero bins, for every num_bins,
\* and never fails.
C3_EmptyGivesNoBins ==
    (Called /\ values = <<>>) => (hist.status = "ok" /\ hist.bins = <<>>)

C3_Witness ==
    Called /\ values = <<>> /\ num_bins = MaxBins /\ hist.bins = <<>>

\* C4: for a non-empty vector and num_bins >= 1 there are exactly num_bins
\* bins and bin i is labelled min + i*bin_width + bin_width/2, with
\* bin_width = (max - min)/num_bins and min, max over all the values.
C4_Labels ==
    (Called /\ Len(values) >= 1 /\ num_bins >= 1)
        => LET min == FromInt(MinOf(values))
               max == FromInt(MaxOf(values))
               bin_width == Div(Sub(max, min), FromInt(num_bins))
           IN  /\ hist.status = "ok"
               /\ Len(hist.bins) = num_bins
               /\ \A i \in 0..(num_bins - 1) :
                     hist.bins[i + 1].label =
                         Add(Add(min, Mul(FromInt(i), bin_width)),
                             Div(bin_width, FromInt(2)))

\* C5: with max > min and num_bins >= 1, bin i counts the values x with
\* min + i*width <= x < min + (i+1)*width, values equal to max going to the
\* last bin.
C5_CountsPerInterval ==
    (Called /\ Len(values) >= 1 /\ num_bins >= 1 /\ MaxOf(values) > MinOf(values))
        => /\ hist.status = "ok"
           /\ Len(hist.bins) = num_bins
           /\ \A i \in 0..(num_bins - 1) :
                 hist.bins[i + 1].count =
                     Cardinality({k \in 1..Len(values) :
                         InBin(values[k], i, MinOf(values), MaxOf(values), num_bins)})

\* C6: a non-empty vector of identical values and num_bins >= 1: no failure,
\* bin 0 holds all the values and every other bin holds none.
C6_IdenticalValuesInBin0 ==
    (Called /\ Len(values) >= 1 /\ num_bins >= 1 /\ AllEqual(values))
        => /\ hist.status = "ok"
           /\ Len(hist.bins) = num_bins
           /\ hist.bins[1].count = Len(values)
           /\ \A i \in 2..num_bins : hist.bins[i].count = 0

C6_Witness ==
    /\ Called /\ Len(values) = MaxLen /\ num_bins = MaxBins /\ AllEqual(values)
    /\ into_counts(hist)[1] = MaxLen

\* C7: every reordering of the values gives the same bins, or fails alike.
C7_OrderIrrelevant ==
    Called => \A p \in Perms(values) : from_values(AsF32(p), num_bins) = hist

\* C8: when every line has a field at `column` that parses, the row iterator
\* yields one item per line, in input order, the k-th being the parsed field
\* of the k-th line, and None once the input is exhausted.
C8_RowsInOrder ==
    (kind = "parser" /\ mode = "rows" /\ AllRowsGood)
        => /\ lines = Unread
           /\ \A k \in 1..Len(returned) :
                 returned[k] = IF k <= Len(input)
                               THEN RetValue(parse_f32(FieldAt(k)).v)
                               ELSE RetNone

\* the repository's test_column_parser: three rows, column 1, delim ","
C8_Witness ==
    /\ kind = "parser" /\ mode = "rows" /\ column = 1 /\ delim = <<",">>
    /\ input = TestInput
    /\ AllRowsGood
    /\ returned = <<RetValue(FromInt(2)), RetValue(FromInt(5)),
                    RetValue(FromInt(8)), RetNone>>

\* C9: a row without the column gives an InvalidRow error for that row only:
\* the reader keeps its later lines, and each later call returns the result
\* of the next line, in order, until the input is exhausted.
C9_MissingColumnPerRow ==
    kind = "parser"
        => \A k \in 1..Len(returned) :
              MissingColumn(k)
                  => /\ returned[k] = RetInvalidRow
                     /\ lines = Unread
                     /\ \A j \in (k + 1)..Len(returned) :
                           returned[j] = IF j <= Len(input)
                                         THEN parse_line(input[j], column, delim)
                                         ELSE RetNone

C9_Witness ==
    /\ kind = "parser"
    /\ Len(returned) > Len(input)
    /\ \E k \in 1..(Len(input) - 1) :
          /\ MissingColumn(k)
          /\ returned[k] = RetInvalidRow
          /\ returned[k + 1].res = "Ok(Some)"

\* C10 as claimed: a field that exists but does not parse gives a per-row
\* error, not a row read with no value.
C10_UnparsableIsError ==
    kind = "parser"
        => \A k \in 1..Len(returned) :
              (HasColumn(k) /\ ~Parses(FieldAt(k)))
                  => returned[k].res \in ErrResults

\* C10 as amended: a field that exists but does not parse gives Ok(None) for
\* that row, a row read with no value, and no error.
C10_UnparsableIsNoValue ==
    kind = "parser"
        => \A k \in 1..Len(returned) :
              (HasColumn(k) /\ ~Parses(FieldAt(k)))
                  => returned[k] = RetNoValue

C10_Witness ==
    /\ kind = "parser" /\ column = 1 /\ delim = <<",">>
    /\ Len(returned) >= 1 /\ Len(input) >= 1
    /\ input[1] = [ok |-> TRUE, line |-> <<"4", ".", "0", ",", "x", ",", "6", ".", "0">>]
    /\ returned[1] = RetNoValue

====
